---- MODULE Spec2Model ----
(***************************************************************************)
(* Model of the MCPRouter daemon supervisor (mcpm/commands/router.py) and  *)
(* of the configuration store it uses (mcpm/utils/config.py).              *)
(*                                                                         *)
(* Every CLI invocation (router on / off / status / share / unshare) is    *)
(* one atomic action; the environment (processes exiting, signals failing, *)
(* spawns failing) is drawn nondeterministically inside the actions.       *)
(***************************************************************************)
EXTENDS Integers, FiniteSets, Sequences, TLC

\* ------------------------------------------------------------------ bounds
\* process ids handed out by the OS to spawned daemons and tunnels: 1..MaxPid
MaxPid == 3

\* `router on` invocations that run at the same time: 1..MaxStarts
MaxStarts == 2

\* ------------------------------------------------------------- constants
DEFAULT_HOST == "localhost"
DEFAULT_PORT == 6276
\* errno 3, "No such process"
ESRCH == 3

\* Python's None for a string-valued field, and for a process id
None == "none"
NoPid == 0
\* content of the PID file: NoPidFile when the file does not exist,
\* CorruptPid when its text does not parse as an integer, else the pid
NoPidFile == 0
CorruptPid == -1

Hosts == {DEFAULT_HOST, "0.0.0.0"}
Ports == {DEFAULT_PORT, 9000}
\* relay addresses "host:port"; the second has no ':' separator
ShareAddrs == {"relay:8877", "relay"}
\* number of ':'-separated components of a relay address
SplitCount(address) == IF address = "relay:8877" THEN 2 ELSE 1

\* ------------------------------------------------------------------ state
VARIABLES
    pid_file,      \* PID_FILE: NoPidFile, CorruptPid or the recorded pid
    share_config,  \* ShareState record [url, pid, api_key]
    config_file,   \* config.json: [st |-> "absent"|"ok"|"malformed", doc |-> document]
    procs,         \* OS process table restricted to the processes the tool spawned
    routers,       \* pids spawned by start_router
    tunnels,       \* pids spawned by share (Tunnel.start_tunnel)
    signalled,     \* pids that were delivered SIGTERM by the tool
    next_pid,      \* next process id the OS hands out
    last,          \* record of the last completed invocation (history)
    prev,          \* the invocation completed before `last` (whether it was a
                   \* stop and what it caught), kept only in the runs that track it
    lifecycle,     \* most recent of start/stop invoked: "none", "start", "stop"
    quiet,         \* TRUE while no external interference or OS fault happened
    manager,       \* a ConfigManager instance that outlives one call: whether it
                   \* is constructed, its _config, whether it created the file
    inflight       \* `router on` invocations that run concurrently: each one's
                   \* position and local variables

vars == <<pid_file, share_config, config_file, procs, routers, tunnels,
          signalled, next_pid, last, prev, lifecycle, quiet, manager, inflight>>

\* ------------------------------------------------- config.py: ConfigManager
EmptyDoc == [k \in {} |-> 0]

\* dict update d[key] = value
DictSet(d, key, value) ==
    [k \in (DOMAIN d) \cup {key} |-> IF k = key THEN value ELSE d[k]]

\* del d[key]
DictDel(d, key) == [k \in (DOMAIN d) \ {key} |-> d[k]]

\* ConfigManager._default_config
DefaultConfig == EmptyDoc

\* ConfigManager._save_config: full rewrite of the file with _config
SaveConfig(cm) == [cm EXCEPT !.file = [st |-> "ok", doc |-> cm.mem]]

\* ConfigManager.__init__ / _load_config: cm = [mem |-> _config, file |-> file]
LoadConfig(file) ==
    IF file.st = "ok" THEN [mem |-> file.doc, file |-> file]
    ELSE IF file.st = "malformed" THEN [mem |-> DefaultConfig, file |-> file]
    ELSE SaveConfig([mem |-> DefaultConfig, file |-> file])

\* set_config that changes _config without saving it
SetConfig_unsaved(cm, key, value, isNone) ==
    IF isNone /\ key \in DOMAIN cm.mem
    THEN [cm EXCEPT !.mem = DictDel(cm.mem, key)]
    ELSE [cm EXCEPT !.mem = DictSet(cm.mem, key, value)]

\* ConfigManager.set_config(key, value); value = None is passed as del = TRUE
SetConfig(cm, key, value, isNone) ==
    IF isNone /\ key \in DOMAIN cm.mem
    THEN SaveConfig([cm EXCEPT !.mem = DictDel(cm.mem, key)])
    ELSE SaveConfig([cm EXCEPT !.mem = DictSet(cm.mem, key, value)])

\* get_router_config that returns the defaults without saving them
GetRouterConfig_unsaved(cm) ==
    IF "router" \notin DOMAIN cm.mem
    THEN [ret |-> [host |-> DEFAULT_HOST, port |-> DEFAULT_PORT], cm |-> cm]
    ELSE LET rc0 == cm.mem["router"]
             rc1 == IF "host" \notin DOMAIN rc0
                    THEN DictSet(rc0, "host", DEFAULT_HOST) ELSE rc0
             rc2 == IF "port" \notin DOMAIN rc1
                    THEN DictSet(rc1, "port", DEFAULT_PORT) ELSE rc1
             updated == "host" \notin DOMAIN rc0 \/ "port" \notin DOMAIN rc0
         IN  [ret |-> rc2,
              cm |-> IF updated THEN SetConfig(cm, "router", rc2, FALSE) ELSE cm]

\* get_router_config that resets host and port whenever one of them is missing
GetRouterConfig_overwrites(cm) ==
    IF "router" \notin DOMAIN cm.mem
    THEN LET router_config == [host |-> DEFAULT_HOST, port |-> DEFAULT_PORT]
         IN  [ret |-> router_config,
              cm |-> SetConfig(cm, "router", router_config, FALSE)]
    ELSE LET rc0 == cm.mem["router"]
             updated == "host" \notin DOMAIN rc0 \/ "port" \notin DOMAIN rc0
             rc2 == IF updated
                    THEN DictSet(DictSet(rc0, "host", DEFAULT_HOST), "port", DEFAULT_PORT)
                    ELSE rc0
         IN  [ret |-> rc2,
              cm |-> IF updated THEN SetConfig(cm, "router", rc2, FALSE) ELSE cm]

\* ConfigManager.get_router_config: [ret |-> router_config, cm |-> manager after]
GetRouterConfig(cm) ==
    IF "router" \notin DOMAIN cm.mem
    THEN LET router_config == [host |-> DEFAULT_HOST, port |-> DEFAULT_PORT]
         IN  [ret |-> router_config,
              cm |-> SetConfig(cm, "router", router_config, FALSE)]
    ELSE LET rc0 == cm.mem["router"]
             rc1 == IF "host" \notin DOMAIN rc0
                    THEN DictSet(rc0, "host", DEFAULT_HOST) ELSE rc0
             rc2 == IF "port" \notin DOMAIN rc1
                    THEN DictSet(rc1, "port", DEFAULT_PORT) ELSE rc1
             updated == "host" \notin DOMAIN rc0 \/ "port" \notin DOMAIN rc0
         IN  [ret |-> rc2,
              cm |-> IF updated THEN SetConfig(cm, "router", rc2, FALSE) ELSE cm]

\* save_router_config that builds the router object afresh
SaveRouterConfig_afresh(cm, host, port) ==
    SetConfig(cm, "router", [host |-> host, port |-> port], FALSE)

\* ConfigManager.save_router_config(host, port)
SaveRouterConfig(cm, host, port) ==
    LET rc0 == IF "router" \in DOMAIN cm.mem THEN cm.mem["router"] ELSE EmptyDoc
        rc1 == DictSet(DictSet(rc0, "host", host), "port", port)
    IN  SetConfig(cm, "router", rc1, FALSE)

\* ------------------------------------- ShareState accessors of ConfigManager
AllAbsent == [url |-> None, pid |-> NoPid, api_key |-> None]

\* read_share_config
ReadShareConfig(sc) == sc

\* save_share_config(share_url, share_pid, api_key): merge of the supplied
\* fields; with every argument absent the record is reset to all-absent
SaveShareConfig(sc, share_url, share_pid, api_key) ==
    IF share_url = None /\ share_pid = NoPid /\ api_key = None
    THEN AllAbsent
    ELSE [url     |-> IF share_url # None THEN share_url ELSE sc.url,
          pid     |-> IF share_pid # NoPid THEN share_pid ELSE sc.pid,
          api_key |-> IF api_key # None THEN api_key ELSE sc.api_key]

\* ------------------------------------------------ router.py: process handle
\* is_process_running(pid): psutil.pid_exists
IsProcessRunning(pid, table) == pid \in table

\* remove_pid_file that leaves the file in place
RemovePidFile_keeps(file) == file

\* remove_pid_file: unlink(missing_ok=True)
RemovePidFile(file) == NoPidFile

\* write_pid_file that keeps a process id that is already in the file
WritePidFile_first_wins(file, pid) == IF file \in 1..MaxPid THEN file ELSE pid

\* write_pid_file(pid): PID_FILE.write_text(str(pid)) overwrites
WritePidFile(file, pid) == pid

\* read_pid_file that reports a dead process without deleting the file
ReadPidFile_no_cleanup(file, table) ==
    IF file = NoPidFile THEN [pid |-> NoPid, file |-> file]
    ELSE IF file = CorruptPid THEN [pid |-> NoPid, file |-> file]
    ELSE IF IsProcessRunning(file, table) THEN [pid |-> file, file |-> file]
    ELSE [pid |-> NoPid, file |-> file]

\* read_pid_file: [pid |-> returned pid or NoPid, file |-> PID file afterwards]
ReadPidFile(file, table) ==
    IF file = NoPidFile THEN [pid |-> NoPid, file |-> file]
    ELSE IF file = CorruptPid THEN [pid |-> NoPid, file |-> file]
    ELSE IF IsProcessRunning(file, table) THEN [pid |-> file, file |-> file]
    ELSE [pid |-> NoPid, file |-> RemovePidFile(file)]

\* os.kill(pid, SIGTERM): the outcomes the OS can produce.  "ok" delivers the
\* signal, "esrch" is OSError(errno 3), "eperm" is OSError with another errno.
\* A process that is in the table may still exit just before the signal.
KillOutcomes(pid, table) ==
    IF pid \in table THEN {"ok", "eperm", "esrch"} ELSE {"esrch"}

\* errno of the OSError raised for a kill outcome
Errno(outcome) == IF outcome = "esrch" THEN ESRCH ELSE ESRCH - 2

\* process table after os.kill gave `outcome`
TableAfterKill(table, pid, outcome) ==
    IF outcome = "esrch" THEN table \ {pid} ELSE table

\* delivered signals after os.kill gave `outcome`
SignalledAfterKill(sig, pid, outcome) ==
    IF outcome = "ok" THEN sig \cup {pid} ELSE sig

\* an outcome the OS produces only under external interference
Interferes(pid, table, sig, outcome) ==
    \/ outcome = "eperm"
    \/ outcome = "esrch" /\ pid \in table /\ pid \notin sig

\* ------------------------------------------- router.py: the commands' guards
\* start_router without the already-running check
AlreadyRunning_unchecked(existing_pid) == FALSE

\* start_router, "if existing_pid:"
AlreadyRunning(existing_pid) == existing_pid # NoPid

\* "if not pid:" that lets every invocation through
NotRunning_unchecked(pid) == FALSE

\* stop_router and share, "if not pid:"
NotRunning(pid) == pid = NoPid

\* 'if share_config.get("pid"):' that never sees the share on record
ShareActive_unchecked(sc) == FALSE

\* stop_router, status and share, 'if share_config.get("pid"):'
ShareActive(sc) == sc.pid # NoPid

\* stop_router that cleans the PID file up after any OSError
StopCleansPidFile_always(errno) == TRUE

\* stop_router, "if e.errno == 3:" before remove_pid_file()
StopCleansPidFile(errno) == errno = ESRCH

\* stop_share that never cleans up after an OSError
UnshareCleansConfig_never(errno) == FALSE

\* stop_share, "if e.errno == 3:" before save_share_config(None, None, None)
UnshareCleansConfig(errno) == errno = ESRCH

\* stop_router that signals the router whatever became of the tunnel
RouterKillReached_regardless(has_share, so) == TRUE

\* stop_router: os.kill(pid, SIGTERM) on the router comes after the share
\* teardown in the same try block, so it runs only if that did not raise
RouterKillReached(has_share, so) == has_share => so = "ok"

\* stop_share, 'if not share_config["url"]' and "if not pid"
NoShareLink(sc) == sc.url = None \/ sc.pid = NoPid

\* ------------------------------------------------------- history records
\* what an invocation saw when it began
Pre == [pid_file |-> pid_file, share |-> share_config, procs |-> procs]

\* the record an invocation leaves in `last`
Done(cmd, pid, report, raised, spawned, share_sig, router_sig, address, bound) ==
    [cmd |-> cmd, pre |-> Pre, pid |-> pid, report |-> report,
     raised |-> raised, spawned |-> spawned, share_sig |-> share_sig,
     router_sig |-> router_sig, address |-> address, bound |-> bound]

\* `prev` in the runs that do not track the invocation before `last`
Untracked == [cmd |-> "untracked", caught |-> "none"]

\* the OSError the invocation in `last` caught: the outcome of its first
\* os.kill that failed, "none" if every signal it sent was delivered
CaughtError ==
    IF last.share_sig \notin {"none", "ok"} THEN last.share_sig
    ELSE IF last.router_sig \notin {"none", "ok"} THEN last.router_sig
    ELSE "none"

\* `prev` after an invocation: what it keeps of the invocation that `last`
\* recorded before (whether it was a stop, and the OSError that stop caught)
Earlier ==
    IF prev = Untracked THEN prev
    ELSE IF last.cmd = "stop" THEN [cmd |-> "stop", caught |-> CaughtError]
    ELSE [cmd |-> "other", caught |-> "none"]

\* ------------------------------------------------------------ router on
\* start_router; spawn_ok is whether subprocess.Popen succeeds
start_router(spawn_ok) ==
    LET r == ReadPidFile(pid_file, procs)
        g == GetRouterConfig(LoadConfig(config_file))
    IN  /\ lifecycle' = "start"
        /\ prev' = Earlier
        /\ UNCHANGED <<manager, inflight>>
        /\ UNCHANGED <<share_config, tunnels, signalled>>
        /\ IF AlreadyRunning(r.pid)
           THEN /\ ~spawn_ok
                /\ pid_file' = r.file
                /\ last' = Done("start", r.pid, "already_running", None,
                                NoPid, "none", "none", None, <<>>)
                /\ UNCHANGED <<config_file, procs, routers, next_pid, quiet>>
           ELSE /\ config_file' = g.cm.file
                /\ IF spawn_ok
                   THEN /\ next_pid <= MaxPid
                        /\ procs' = procs \cup {next_pid}
                        /\ routers' = routers \cup {next_pid}
                        /\ next_pid' = next_pid + 1
                        /\ pid_file' = WritePidFile(r.file, next_pid)
                        /\ last' = Done("start", r.pid, "started", None,
                                        next_pid, "none", "none", None,
                                        <<g.ret.host, g.ret.port>>)
                        /\ UNCHANGED quiet
                   ELSE /\ pid_file' = r.file
                        /\ last' = Done("start", r.pid, "failed_to_start", None,
                                        NoPid, "none", "none", None, <<>>)
                        /\ quiet' = FALSE
                        /\ UNCHANGED <<procs, routers, next_pid>>

\* ------------------------------------------------------------ router off
\* stop_router; so / ro are the outcomes of os.kill on the tunnel / the router
\* ("none" when that os.kill is not reached)
stop_router(so, ro) ==
    LET r  == ReadPidFile(pid_file, procs)
        cm == LoadConfig(config_file)
        sc == ReadShareConfig(share_config)
        has_share == ShareActive(sc)
        procs1 == IF has_share THEN TableAfterKill(procs, sc.pid, so) ELSE procs
        sig1   == IF has_share THEN SignalledAfterKill(signalled, sc.pid, so)
                  ELSE signalled
        \* the OSError caught at "except OSError as e", or "none"
        err == IF has_share /\ so # "ok" THEN so
               ELSE IF ro # "ok" THEN ro ELSE "none"
    IN  /\ lifecycle' = "stop"
        /\ prev' = Earlier
        /\ UNCHANGED <<manager, inflight>>
        /\ UNCHANGED <<routers, tunnels, next_pid>>
        /\ IF NotRunning(r.pid)
           THEN /\ so = "none" /\ ro = "none"
                /\ pid_file' = r.file
                /\ last' = Done("stop", r.pid, "not_running", None, NoPid,
                                "none", "none", None, <<>>)
                /\ UNCHANGED <<share_config, config_file, procs, signalled, quiet>>
           ELSE /\ config_file' = cm.file
                /\ so \in (IF has_share THEN KillOutcomes(sc.pid, procs)
                           ELSE {"none"})
                /\ ro \in (IF RouterKillReached(has_share, so)
                           THEN KillOutcomes(r.pid, procs1) ELSE {"none"})
                /\ share_config' = IF has_share /\ so = "ok"
                                   THEN SaveShareConfig(sc, None, NoPid, None)
                                   ELSE share_config
                /\ procs' = IF ro = "none" THEN procs1
                            ELSE TableAfterKill(procs1, r.pid, ro)
                /\ signalled' = IF ro = "none" THEN sig1
                                ELSE SignalledAfterKill(sig1, r.pid, ro)
                /\ pid_file' = IF err = "none" \/ StopCleansPidFile(Errno(err))
                               THEN RemovePidFile(r.file) ELSE r.file
                /\ quiet' = (/\ quiet
                             /\ ~(has_share /\ Interferes(sc.pid, procs, signalled, so))
                             /\ ~(ro # "none" /\ Interferes(r.pid, procs1, sig1, ro)))
                /\ last' = Done("stop", r.pid,
                                IF err = "none" THEN "stopped" ELSE "failed_to_stop",
                                None, NoPid, so, ro, None, <<>>)

\* --------------------------------------------------------- router status
router_status ==
    LET g  == GetRouterConfig(LoadConfig(config_file))
        r  == ReadPidFile(pid_file, procs)
        sc == ReadShareConfig(share_config)
    IN  /\ config_file' = g.cm.file
        /\ prev' = Earlier
        /\ UNCHANGED <<manager, inflight>>
        /\ pid_file' = r.file
        /\ last' = Done("status", r.pid,
                        IF r.pid = NoPid THEN "not_running"
                        ELSE IF ShareActive(sc) THEN "running_sharing"
                        ELSE "running",
                        None, NoPid, "none", "none", None,
                        <<g.ret.host, g.ret.port>>)
        /\ UNCHANGED <<share_config, procs, routers, tunnels, signalled,
                       next_pid, lifecycle, quiet>>

\* ---------------------------------------------------------- router share
\* the public base URLs Tunnel.start_tunnel can return
TunnelUrls == {"https://pub.example", "http://pub.example"}

\* share_url.replace("https://", "http://") + "/sse"
ShareUrl(url) ==
    IF url = "https://pub.example" THEN "http://pub.example/sse"
    ELSE "http://pub.example/sse"

\* str(uuid.uuid4())
ApiKey == "uuid4"

\* what Tunnel.start_tunnel can do: "proc" returns a URL and leaves a tunnel
\* process in tunnel.proc, "noproc" returns a URL with tunnel.proc None,
\* "fail" raises
TunnelOutcomes == {"proc", "noproc", "fail"}

\* share(address, profile); address = None when --address is not given,
\* tun is the outcome of Tunnel.start_tunnel ("none" when it is not reached)
\* and url the base URL it returns
share(address, tun, url) ==
    LET r  == ReadPidFile(pid_file, procs)
        cm == LoadConfig(config_file)
        sc == ReadShareConfig(share_config)
        \* "if not address": config is bound only on this branch
        g  == GetRouterConfig(cm)
        config_bound == address = None
        cm1 == IF config_bound THEN g.cm ELSE cm
        key_error == config_bound /\ "share_address" \notin DOMAIN g.ret
        address1 == IF config_bound THEN g.ret["share_address"] ELSE address
        raised == IF key_error THEN "KeyError"
                  ELSE IF SplitCount(address1) # 2 THEN "ValueError"
                  ELSE IF ~config_bound THEN "UnboundLocalError"
                  ELSE IF tun = "fail" THEN "TunnelError"
                  ELSE None
        share_pid == IF tun = "proc" THEN next_pid ELSE NoPid
    IN  /\ pid_file' = r.file
        /\ prev' = Earlier
        /\ UNCHANGED <<manager, inflight>>
        /\ config_file' = IF NotRunning(r.pid) \/ ShareActive(sc) THEN cm.file
                          ELSE cm1.file
        /\ UNCHANGED <<routers, signalled, lifecycle, quiet>>
        /\ IF NotRunning(r.pid)
           THEN /\ tun = "none"
                /\ last' = Done("share", r.pid, "not_running", None, NoPid,
                                "none", "none", address, <<>>)
                /\ UNCHANGED <<share_config, procs, tunnels, next_pid>>
           ELSE IF ShareActive(sc)
           THEN /\ tun = "none"
                /\ last' = Done("share", r.pid, "already_active", None, NoPid,
                                "none", "none", address, <<>>)
                /\ UNCHANGED <<share_config, procs, tunnels, next_pid>>
           ELSE IF raised \in {"KeyError", "ValueError", "UnboundLocalError"}
           THEN /\ tun = "none"
                /\ last' = Done("share", r.pid, "traceback", raised, NoPid,
                                "none", "none", address, <<>>)
                /\ UNCHANGED <<share_config, procs, tunnels, next_pid>>
           ELSE /\ tun \in TunnelOutcomes
                /\ tun = "proc" => next_pid <= MaxPid
                /\ procs' = IF tun = "proc" THEN procs \cup {next_pid} ELSE procs
                /\ tunnels' = IF tun = "proc" THEN tunnels \cup {next_pid}
                              ELSE tunnels
                /\ next_pid' = IF tun = "proc" THEN next_pid + 1 ELSE next_pid
                /\ share_config' =
                       IF tun = "fail" THEN share_config
                       ELSE SaveShareConfig(sc, ShareUrl(url), share_pid, ApiKey)
                /\ last' = Done("share", r.pid,
                                IF tun = "fail" THEN "traceback" ELSE "sharing",
                                raised, share_pid, "none", "none", address,
                                IF tun = "fail" THEN <<>>
                                ELSE <<g.ret.host, g.ret.port>>)

\* -------------------------------------------------------- router unshare
\* stop_share; so is the outcome of os.kill on the tunnel ("none" when the
\* os.kill is not reached)
stop_share(so) ==
    LET cm == LoadConfig(config_file)
        sc == ReadShareConfig(share_config)
    IN  /\ config_file' = cm.file
        /\ prev' = Earlier
        /\ UNCHANGED <<manager, inflight>>
        /\ UNCHANGED <<pid_file, routers, tunnels, next_pid, lifecycle>>
        /\ IF NoShareLink(sc)
           THEN /\ so = "none"
                /\ last' = Done("unshare", NoPid, "no_share", None, NoPid,
                                "none", "none", None, <<>>)
                /\ UNCHANGED <<share_config, procs, signalled, quiet>>
           ELSE /\ so \in KillOutcomes(sc.pid, procs)
                /\ procs' = TableAfterKill(procs, sc.pid, so)
                /\ signalled' = SignalledAfterKill(signalled, sc.pid, so)
                /\ share_config' = IF so = "ok" \/ UnshareCleansConfig(Errno(so))
                                   THEN SaveShareConfig(sc, None, NoPid, None)
                                   ELSE share_config
                /\ quiet' = (quiet /\ ~Interferes(sc.pid, procs, signalled, so))
                /\ last' = Done("unshare", NoPid, "share_disabled", None, NoPid,
                                so, "none", None, <<>>)

\* ------------------------------------------------------------ environment
\* a spawned process leaves the OS process table: after SIGTERM (graceful
\* shutdown) or on its own
ProcExit(p) ==
    /\ p \in procs
    /\ procs' = procs \ {p}
    /\ quiet' = (quiet /\ p \in signalled)
    /\ UNCHANGED <<pid_file, share_config, config_file, routers, tunnels,
                   signalled, next_pid, last, prev, lifecycle, manager,
                   inflight>>

\* --------------------------------------------------------- specification
\* router objects a config.json can hold: any subset of the three fields
\* (h, a = None and p = 0 leave the field out)
RouterObject(h, p, a) ==
    (IF h # None THEN "host" :> h ELSE EmptyDoc)
    @@ (IF p # 0 THEN "port" :> p ELSE EmptyDoc)
    @@ (IF a # None THEN "share_address" :> a ELSE EmptyDoc)

RouterObjects ==
    {RouterObject(h, p, a) : h \in Hosts \cup {None}, p \in Ports \cup {0},
                             a \in ShareAddrs \cup {None}}

\* the config.json files an invocation can find
InitFiles ==
    {[st |-> "absent", doc |-> EmptyDoc], [st |-> "malformed", doc |-> EmptyDoc],
     [st |-> "ok", doc |-> EmptyDoc]}
    \cup {[st |-> "ok", doc |-> [router |-> rc]] : rc \in RouterObjects}

\* no ConfigManager instance is kept between calls
NoManager == [live |-> FALSE, mem |-> EmptyDoc, created |-> FALSE]

\* no `router on` invocation runs concurrently with another
NoneInFlight == <<>>

NoInvocation ==
    [cmd |-> "none", pre |-> [pid_file |-> NoPidFile, share |-> AllAbsent, procs |-> {}],
     pid |-> NoPid, report |-> "none", raised |-> None, spawned |-> NoPid,
     share_sig |-> "none", router_sig |-> "none", address |-> None, bound |-> <<>>]

Init ==
    /\ pid_file \in {NoPidFile, CorruptPid}
    /\ share_config = AllAbsent
    /\ config_file \in InitFiles
    /\ procs = {}
    /\ routers = {}
    /\ tunnels = {}
    /\ signalled = {}
    /\ next_pid = 1
    /\ last = NoInvocation
    /\ prev = Untracked
    /\ lifecycle = "none"
    /\ quiet = (pid_file = NoPidFile)
    /\ manager = NoManager
    /\ inflight = NoneInFlight

Next ==
    \/ \E spawn_ok \in BOOLEAN : start_router(spawn_ok)
    \/ \E so, ro \in {"none", "ok", "esrch", "eperm"} : stop_router(so, ro)
    \/ router_status
    \/ \E address \in ShareAddrs \cup {None}, tun \in TunnelOutcomes \cup {"none"},
          url \in TunnelUrls : share(address, tun, url)
    \/ \E so \in {"none", "ok", "esrch", "eperm"} : stop_share(so)
    \/ \E p \in 1..MaxPid : ProcExit(p)

Spec == Init /\ [][Next]_vars

\* the runs that track the invocation before the last one: the same commands,
\* started from a config.json that names a relay address
SeqFiles ==
    {[st |-> "ok", doc |-> [router |-> RouterObject(None, 0, "relay:8877")]]}

InitSeq ==
    /\ pid_file \in {NoPidFile, CorruptPid}
    /\ share_config = AllAbsent
    /\ config_file \in SeqFiles
    /\ procs = {}
    /\ routers = {}
    /\ tunnels = {}
    /\ signalled = {}
    /\ next_pid = 1
    /\ last = NoInvocation
    /\ prev = [cmd |-> "other", caught |-> "none"]
    /\ lifecycle = "none"
    /\ quiet = (pid_file = NoPidFile)
    /\ manager = NoManager
    /\ inflight = NoneInFlight

SpecSeq == InitSeq /\ [][Next]_vars

TypeOK ==
    /\ pid_file \in {NoPidFile, CorruptPid} \cup (1..MaxPid)
    /\ share_config.pid \in {NoPid} \cup (1..MaxPid)
    /\ procs \subseteq 1..MaxPid
    /\ routers \cap tunnels = {}

\* ------------------------------------------------------------------ claims
\* the PID file an invocation found names a process in the OS process table
\* (read_pid_file returns it)
FoundLivePid == last.pre.pid_file \in last.pre.procs

\* the PID file an invocation found names a process that is not in the table
FoundStalePid ==
    /\ last.pre.pid_file \in 1..MaxPid
    /\ last.pre.pid_file \notin last.pre.procs

\* the ShareState an invocation found has a tunnel process id on record
FoundActiveShare == last.pre.share.pid # NoPid

ReportsRunning == last.report \in {"running", "running_sharing"}
ReportsStopped == last.report = "not_running"

\* C1: with no external interference (no process exiting unsignalled, no
\* failing signal or spawn, no edited file), a status issued when the latest
\* of start/stop was a start reports Running, and when it was a stop reports
\* Stopped.
C1_StatusFollowsLifecycle ==
    (quiet /\ last.cmd = "status") =>
        /\ lifecycle = "start" => ReportsRunning
        /\ lifecycle = "stop" => ReportsStopped

\* a status that reported Stopped after a stop that signalled a started router
C1_Witness ==
    /\ quiet /\ last.cmd = "status" /\ lifecycle = "stop"
    /\ routers \cap signalled # {}
    /\ ReportsStopped

\* C2: start while the PID file names a live process spawns nothing and
\* leaves the PID file's content as it was.
C2_StartWhileRunningIsNoop ==
    (last.cmd = "start" /\ FoundLivePid) =>
        /\ last.spawned = NoPid
        /\ pid_file = last.pre.pid_file
        /\ last.report = "already_running"

C2_Witness ==
    /\ last.cmd = "start" /\ FoundLivePid
    /\ last.report = "already_running"
    /\ pid_file \in routers

\* C5: status on a PID file that names a process absent from the process
\* table reports Stopped and leaves no PID file.
C5_StalePidRecovery ==
    (last.cmd = "status" /\ FoundStalePid) =>
        /\ ReportsStopped
        /\ pid_file = NoPidFile

C5_Witness ==
    /\ last.cmd = "status" /\ FoundStalePid
    /\ last.pre.pid_file \in routers
    /\ pid_file = NoPidFile

\* C10: share while read_pid_file returns none (no PID file, or one that
\* names no live process) spawns no tunnel and leaves ShareState unchanged.
C10_ShareNeedsRunningRouter ==
    (last.cmd = "share" /\ ~FoundLivePid) =>
        /\ last.spawned = NoPid
        /\ share_config = last.pre.share
        /\ last.report = "not_running"

C10_Witness ==
    /\ last.cmd = "share" /\ ~FoundLivePid
    /\ last.report = "not_running"
    /\ last.address # None

\* url, pid and api_key are all present or all absent
AllOrNothing(sc) ==
    \/ sc.url = None /\ sc.pid = NoPid /\ sc.api_key = None
    \/ sc.url # None /\ sc.pid # NoPid /\ sc.api_key # None

AllPresent(sc) == sc.url # None /\ sc.pid # NoPid /\ sc.api_key # None

\* C3: a stop that found a PID on record and an active share leaves
\* ShareState all-absent, also when the tunnel process had already exited
\* (its signal then fails with "no such process").  Stated for the stops
\* whose signal to the tunnel was delivered or found no such process.
C3_StopClearsShare ==
    (/\ last.cmd = "stop" /\ FoundLivePid /\ FoundActiveShare
     /\ last.share_sig # "eperm") =>
        share_config = AllAbsent

C6_ShareStateAllOrNothing ==
    last.cmd \in {"share", "unshare", "stop"} => AllOrNothing(share_config)

\* C7 as stated: an unshare that found an active share leaves ShareState
\* all-absent whatever the outcome of the signal.
C7_UnshareAlwaysClears ==
    (last.cmd = "unshare" /\ FoundActiveShare /\ last.pre.share.url # None) =>
        share_config = AllAbsent

\* C7 amended: an unshare that found an active share leaves ShareState
\* all-absent when the signal was delivered or failed with "no such process",
\* and leaves ShareState as it was when the signal failed with another OS
\* error.
C7_UnshareClearsUnlessOtherError ==
    (last.cmd = "unshare" /\ FoundActiveShare /\ last.pre.share.url # None) =>
        /\ last.share_sig \in {"ok", "esrch"}
              => share_config = AllAbsent
        /\ last.share_sig = "eperm" => share_config = last.pre.share
        /\ last.share_sig # "none"

\* an unshare whose tunnel had already exited and that cleared ShareState
C7_Witness ==
    /\ last.cmd = "unshare" /\ FoundActiveShare
    /\ last.pre.share.pid \notin last.pre.procs
    /\ last.share_sig = "esrch"
    /\ share_config = AllAbsent

\* tunnels spawned by the tool that are alive and were never signalled
LiveTunnels == {t \in tunnels : t \in procs /\ t \notin signalled}

\* C8: a share that found an active share spawns nothing and leaves
\* ShareState unchanged, and at most one spawned tunnel is alive and
\* un-signalled.
C8_AtMostOneShare ==
    /\ (last.cmd = "share" /\ FoundActiveShare) =>
           /\ last.spawned = NoPid
           /\ share_config = last.pre.share
    /\ Cardinality(LiveTunnels) <= 1

\* a share rejected because a live tunnel is on record
C8_Witness ==
    /\ last.cmd = "share" /\ FoundLivePid /\ FoundActiveShare
    /\ last.report = "already_active"
    /\ share_config.pid \in LiveTunnels

\* C9: share with an explicit, well-formed relay address, issued while the
\* router is Running and no share is active, spawns the tunnel bound to
\* RouterConfig's host and port and leaves ShareState all present.
C9_ShareWithExplicitAddress ==
    (/\ last.cmd = "share" /\ FoundLivePid /\ ~FoundActiveShare
     /\ last.address # None /\ SplitCount(last.address) = 2) =>
        /\ last.raised \in {None, "TunnelError"}
        /\ last.raised = None =>
              /\ last.bound = <<GetRouterConfig(LoadConfig(config_file)).ret.host,
                                GetRouterConfig(LoadConfig(config_file)).ret.port>>
              /\ last.spawned # NoPid => AllPresent(share_config)

\* ----------------------------------------------- claims on two invocations
\* the last two invocations were both `router off`
TwoStops == prev.cmd = "stop" /\ last.cmd = "stop"

\* the OSError the first of two invocations caught, "none" if it caught none
FirstCaughtError == prev.caught

\* the invocation was a reported no-op: "not running", no signal, no error
StopWasNoop ==
    /\ last.report = "not_running"
    /\ last.share_sig = "none" /\ last.router_sig = "none"
    /\ last.raised = None

\* the PID file, if there is one, holds no process id
NoPidOnRecord == pid_file \notin 1..MaxPid

\* C11 as stated: the second of two stops in a row is a reported no-op that
\* sends no signal, raises no error and leaves no PID record.
C11_SecondStopIsNoop ==
    TwoStops => (StopWasNoop /\ NoPidOnRecord)

\* C11 amended: the second of two stops in a row is such a no-op whenever the
\* first stop's signals were delivered or failed with "no such process"; a
\* first stop whose signal failed with another OS error kept the PID record
\* for the second stop to find.
C11_SecondStopIsNoopUnlessOtherError ==
    TwoStops =>
        /\ FirstCaughtError \in {"none", "esrch"} =>
               (StopWasNoop /\ NoPidOnRecord /\ pid_file = last.pre.pid_file)
        /\ FirstCaughtError = "eperm" => last.pre.pid_file \in 1..MaxPid
        /\ last.raised = None

\* a second stop that was a no-op after a first stop that signalled the router
C11_Witness ==
    /\ TwoStops /\ prev.caught = "none"
    /\ StopWasNoop /\ pid_file = NoPidFile
    /\ routers \cap signalled # {}

\* C16: a stop that found an active share calls os.kill on the router only
\* after the signal to the tunnel was delivered and ShareState was reset; the
\* router is never signalled while ShareState still shows the share.
C16_ShareTeardownBeforeRouter ==
    (/\ last.cmd = "stop" /\ FoundLivePid /\ FoundActiveShare
     /\ last.router_sig # "none") =>
        /\ last.share_sig = "ok"
        /\ last.pre.share.pid \in signalled
        /\ share_config = AllAbsent

\* a stop that signalled the live tunnel, reset ShareState, then signalled
\* the router
C16_Witness ==
    /\ last.cmd = "stop" /\ FoundLivePid /\ FoundActiveShare
    /\ last.pre.share.pid \in last.pre.procs
    /\ last.share_sig = "ok" /\ last.router_sig = "ok"
    /\ share_config = AllAbsent
    /\ {last.pre.share.pid, last.pid} \subseteq signalled

\* the PID file an invocation found does not parse as an integer
FoundCorruptPid == last.pre.pid_file = CorruptPid

\* C17: an invocation that reads an unparsable PID file gets no process id
\* from read_pid_file and the PID file no longer exists when it has returned
\* (start is left out: it writes the PID file anew).
C17_CorruptPidFileDeleted ==
    (last.cmd \in {"status", "stop", "share"} /\ FoundCorruptPid) =>
        /\ last.pid = NoPid
        /\ pid_file = NoPidFile

\* the ShareState an invocation found names a tunnel process that is gone
FoundStaleShare ==
    /\ FoundActiveShare
    /\ last.pre.share.pid \notin last.pre.procs

\* C18: a status or share on a running router that finds a share record
\* whose tunnel process is gone does not treat the share as active, and
\* unless it starts a new tunnel ShareState ends all-absent.
C18_StaleShareCleared ==
    (last.cmd \in {"status", "share"} /\ FoundLivePid /\ FoundStaleShare) =>
        /\ last.report \notin {"running_sharing", "already_active"}
        /\ last.spawned = NoPid => share_config = AllAbsent

\* the invocation was a share that got as far as the relay address and was
\* given one that does not split into a host and a port
GaveUnsplittableAddress ==
    /\ last.cmd = "share" /\ FoundLivePid /\ ~FoundActiveShare
    /\ last.address # None /\ SplitCount(last.address) # 2

\* C21: a share given a relay address that does not split into exactly a
\* host and a port spawns no tunnel, leaves ShareState unchanged and ends in
\* a reported error, with no exception leaving the command.
C21_BadAddressReported ==
    GaveUnsplittableAddress =>
        /\ last.spawned = NoPid
        /\ share_config = last.pre.share
        /\ last.raised = None
        /\ last.report # "traceback"

\* the invocation was a start whose subprocess.Popen raised
FailedSpawn == last.cmd = "start" /\ last.report = "failed_to_start"

\* C22: a start whose spawn fails reports the failure, spawns nothing and
\* leaves no process id on record, and a status that follows it reports
\* Stopped.
C22_FailedSpawnPersistsNoPid ==
    [][/\ FailedSpawn' => (last'.spawned = NoPid /\ NoPidOnRecord')
       /\ (FailedSpawn /\ last'.cmd = "status") =>
              (ReportsStopped' /\ NoPidOnRecord')]_vars

\* a start that cleaned up the record of a router that had died, then failed
\* to spawn: nothing is on record (router_status is enabled in every state)
C22_Witness ==
    /\ FailedSpawn /\ FoundStalePid
    /\ last.spawned = NoPid /\ pid_file = NoPidFile
    /\ routers \cap procs = {}

\* routers spawned by start that are still in the process table and were
\* never sent a termination signal
RunningUnsignalled == (routers \cap procs) \ signalled

\* C23: whenever the PID file is absent after an invocation, every router
\* spawned by start has exited or has been sent a termination signal.
C23_NoRouterOrphaned ==
    (last.cmd # "none" /\ pid_file = NoPidFile) => RunningUnsignalled = {}

\* C24: after any invocation ShareState shows an active share only if the
\* PID file records a router process id.
C24_ShareNestedInRouter ==
    (last.cmd # "none" /\ ShareActive(share_config)) => pid_file \in 1..MaxPid

\* ------------------------------------------- config.py: calls on one manager
\* top-level keys other than "router" that set_config is called with, and
\* the values it is given (None removes)
OtherKeys == {"active_client"}
KeyValues == {"cursor", None}

\* documents a config.json can hold: an optional router object and an
\* optional value under each other key
Documents ==
    {part @@ (IF v # None THEN "active_client" :> v ELSE EmptyDoc) :
        part \in {EmptyDoc} \cup {"router" :> rc : rc \in RouterObjects},
        v \in {"cursor", None}}

ConfigFiles ==
    {[st |-> "absent", doc |-> EmptyDoc], [st |-> "malformed", doc |-> EmptyDoc]}
    \cup {[st |-> "ok", doc |-> d] : d \in Documents}

\* the ConfigManager the calls are made on, as the operators above take it
Manager == [mem |-> manager.mem, file |-> config_file]

\* the record a call on the manager leaves in `last`
Called(cmd, key, value, host, port, ret) ==
    [cmd |-> cmd, pre |-> [mem |-> manager.mem, file |-> config_file],
     created |-> manager.created, key |-> key, value |-> value,
     host |-> host, port |-> port, ret |-> ret]

NoCall ==
    [cmd |-> "none", pre |-> [mem |-> EmptyDoc, file |-> [st |-> "absent", doc |-> EmptyDoc]],
     created |-> FALSE, key |-> None, value |-> None, host |-> None, port |-> 0,
     ret |-> EmptyDoc]

CliUnchanged ==
    UNCHANGED <<pid_file, share_config, procs, routers, tunnels, signalled,
                next_pid, lifecycle, quiet, inflight>>

\* ConfigManager(): a new process constructs its manager from the file
new_manager ==
    LET cm == LoadConfig(config_file)
    IN  /\ manager' = [live |-> TRUE, mem |-> cm.mem,
                       created |-> config_file.st = "absent"]
        /\ config_file' = cm.file
        /\ prev' = last
        /\ last' = [Called("ConfigManager", None, None, None, 0, EmptyDoc)
                      EXCEPT !.created = config_file.st = "absent"]
        /\ CliUnchanged

\* manager.set_config(key, value)
set_config(key, value) ==
    LET cm == SetConfig(Manager, key, value, value = None)
    IN  /\ manager.live
        /\ manager' = [manager EXCEPT !.mem = cm.mem]
        /\ config_file' = cm.file
        /\ prev' = last
        /\ last' = Called("set_config", key, value, None, 0, EmptyDoc)
        /\ CliUnchanged

\* manager.get_router_config()
get_router_config ==
    LET g == GetRouterConfig(Manager)
    IN  /\ manager.live
        /\ manager' = [manager EXCEPT !.mem = g.cm.mem]
        /\ config_file' = g.cm.file
        /\ prev' = last
        /\ last' = Called("get_router_config", None, None, None, 0, g.ret)
        /\ CliUnchanged

\* manager.save_router_config(host, port)
save_router_config(host, port) ==
    LET cm == SaveRouterConfig(Manager, host, port)
    IN  /\ manager.live
        /\ manager' = [manager EXCEPT !.mem = cm.mem]
        /\ config_file' = cm.file
        /\ prev' = last
        /\ last' = Called("save_router_config", None, None, host, port, EmptyDoc)
        /\ CliUnchanged

InitConfig ==
    /\ pid_file = NoPidFile
    /\ share_config = AllAbsent
    /\ config_file \in ConfigFiles
    /\ procs = {}
    /\ routers = {}
    /\ tunnels = {}
    /\ signalled = {}
    /\ next_pid = 1
    /\ last = NoCall
    /\ prev = NoCall
    /\ lifecycle = "none"
    /\ quiet = TRUE
    /\ manager = NoManager
    /\ inflight = NoneInFlight

NextConfig ==
    \/ new_manager
    \/ \E key \in OtherKeys, value \in KeyValues : set_config(key, value)
    \/ get_router_config
    \/ \E host \in Hosts, port \in Ports : save_router_config(host, port)

SpecConfig == InitConfig /\ [][NextConfig]_vars

\* ------------------------------------------------ claims on the config store
DefaultRouterConfig == [host |-> DEFAULT_HOST, port |-> DEFAULT_PORT]

\* the manager's document had no router key when the call began
HadNoRouter == "router" \notin DOMAIN last.pre.mem

\* the config file holds exactly this router object
Persisted(rc) ==
    /\ config_file.st = "ok"
    /\ "router" \in DOMAIN config_file.doc
    /\ config_file.doc["router"] = rc

\* C12: get_router_config on a document without router key (also when the
\* config file did not exist) returns host = localhost, port = 6276 and the
\* config file afterwards holds exactly that router object.
C12_DefaultsCreatedAndPersisted ==
    (last.cmd = "get_router_config" /\ HadNoRouter) =>
        /\ last.ret = DefaultRouterConfig
        /\ last.ret.host = "localhost" /\ last.ret.port = 6276
        /\ Persisted(DefaultRouterConfig)

\* get_router_config on the manager that created the missing config file
C12_Witness ==
    /\ last.cmd = "get_router_config" /\ HadNoRouter
    /\ last.created /\ prev.cmd = "ConfigManager"
    /\ Persisted(DefaultRouterConfig)

\* the router object the call found, and the fields it lacked
FoundRouter == last.pre.mem["router"]
Lacking == {"host", "port"} \ DOMAIN FoundRouter

\* C13: get_router_config on a router object that lacks some of host/port
\* fills only the lacking fields with their defaults, persists the merged
\* object and changes no field that was present.
C13_BackfillOnlyMissing ==
    (last.cmd = "get_router_config" /\ ~HadNoRouter) =>
        /\ DOMAIN last.ret = DOMAIN FoundRouter \cup {"host", "port"}
        /\ \A f \in DOMAIN FoundRouter : last.ret[f] = FoundRouter[f]
        /\ "host" \in Lacking => last.ret["host"] = DEFAULT_HOST
        /\ "port" \in Lacking => last.ret["port"] = DEFAULT_PORT
        /\ Lacking # {} => Persisted(last.ret)
        /\ Lacking = {} => config_file = last.pre.file

\* router = {port: 9000} gave host = localhost, port = 9000, both persisted
C13_Witness ==
    /\ last.cmd = "get_router_config" /\ ~HadNoRouter
    /\ FoundRouter = RouterObject(None, 9000, None)
    /\ last.ret = RouterObject(DEFAULT_HOST, 9000, None)
    /\ Persisted(last.ret)

\* the last two calls were save_router_config, then get_router_config
SavedThenGot == prev.cmd = "save_router_config" /\ last.cmd = "get_router_config"

\* the router object before the save ({} when there was none)
RouterBeforeSave ==
    IF "router" \in DOMAIN prev.pre.mem THEN prev.pre.mem["router"] ELSE EmptyDoc

\* C14: save_router_config(host, port) followed by get_router_config returns
\* exactly that host and port; every other field of the router object and
\* every other top-level key is as before the save.
C14_RoundTrip ==
    SavedThenGot =>
        /\ last.ret["host"] = prev.host /\ last.ret["port"] = prev.port
        /\ DOMAIN last.ret = DOMAIN RouterBeforeSave \cup {"host", "port"}
        /\ \A f \in DOMAIN RouterBeforeSave \ {"host", "port"} :
               last.ret[f] = RouterBeforeSave[f]
        /\ DOMAIN manager.mem = DOMAIN prev.pre.mem \cup {"router"}
        /\ \A k \in DOMAIN prev.pre.mem \ {"router"} :
               manager.mem[k] = prev.pre.mem[k]
        /\ manager.mem["router"] = last.ret

\* a round trip that changed host and port and kept a relay address and
\* another key
C14_Witness ==
    /\ SavedThenGot
    /\ prev.host = "0.0.0.0" /\ prev.port = 9000
    /\ RouterBeforeSave = RouterObject(DEFAULT_HOST, DEFAULT_PORT, "relay:8877")
    /\ last.ret = RouterObject("0.0.0.0", 9000, "relay:8877")
    /\ "active_client" \in DOMAIN manager.mem

\* C19: after set_config(key, None) the key is absent from the document,
\* whether or not it was present before.
C19_SetNoneRemovesKey ==
    (last.cmd = "set_config" /\ last.value = None) =>
        last.key \notin DOMAIN manager.mem

\* the call changed the document: a set, a save_router_config, or a
\* get_router_config that backfilled
Mutating ==
    \/ last.cmd \in {"set_config", "save_router_config"}
    \/ last.cmd = "get_router_config" /\ (HadNoRouter \/ Lacking # {})

\* C20: after every set_config, save_router_config or backfilling
\* get_router_config the config file holds the manager's in-memory document.
C20_WriteThrough ==
    Mutating => (config_file.st = "ok" /\ config_file.doc = manager.mem)

\* a set_config on a manager whose file was malformed when it was loaded
C20_Witness ==
    /\ last.cmd = "set_config" /\ last.value # None
    /\ last.pre.file.st = "malformed"
    /\ config_file.doc = manager.mem
    /\ manager.mem # EmptyDoc

\* --------------------------------- router.py: `router on` run concurrently
\* Each invocation is its own OS process; nothing serialises them, so the
\* steps of start_router interleave at its file and process operations.
\* inflight[i] = [pc, existing_pid, spawned, report]:
\*   "check"  before read_pid_file
\*   "spawn"  past "if existing_pid:", before subprocess.Popen
\*   "record" Popen returned, before write_pid_file
\*   "done"   returned
Starts == 1..MaxStarts

Begin == [pc |-> "check", existing_pid |-> NoPid, spawned |-> NoPid, report |-> "none"]

RaceUnchanged ==
    UNCHANGED <<share_config, tunnels, signalled, prev, lifecycle, quiet, manager>>

\* existing_pid = read_pid_file(); if existing_pid: ... return
start_check(i) ==
    LET r == ReadPidFile(pid_file, procs)
    IN  /\ inflight[i].pc = "check"
        /\ pid_file' = r.file
        /\ inflight' = [inflight EXCEPT ![i] =
               IF AlreadyRunning(r.pid)
               THEN [@ EXCEPT !.pc = "done", !.existing_pid = r.pid,
                              !.report = "already_running"]
               ELSE [@ EXCEPT !.pc = "spawn"]]
        /\ UNCHANGED <<config_file, procs, routers, next_pid, last>>
        /\ RaceUnchanged

\* ConfigManager().get_router_config() and subprocess.Popen(uvicorn_cmd, ...)
start_spawn(i, spawn_ok) ==
    LET g == GetRouterConfig(LoadConfig(config_file))
    IN  /\ inflight[i].pc = "spawn"
        /\ config_file' = g.cm.file
        /\ IF spawn_ok
           THEN /\ next_pid <= MaxPid
                /\ procs' = procs \cup {next_pid}
                /\ routers' = routers \cup {next_pid}
                /\ next_pid' = next_pid + 1
                /\ inflight' = [inflight EXCEPT ![i] =
                       [@ EXCEPT !.pc = "record", !.spawned = next_pid]]
           ELSE /\ inflight' = [inflight EXCEPT ![i] =
                       [@ EXCEPT !.pc = "done", !.report = "failed_to_start"]]
                /\ UNCHANGED <<procs, routers, next_pid>>
        /\ UNCHANGED <<pid_file, last>>
        /\ RaceUnchanged

\* pid = process.pid; write_pid_file(pid); `last` is the invocation that
\* wrote the PID file last
start_record(i) ==
    LET g == GetRouterConfig(LoadConfig(config_file))
    IN  /\ inflight[i].pc = "record"
        /\ pid_file' = WritePidFile(pid_file, inflight[i].spawned)
        /\ inflight' = [inflight EXCEPT ![i] =
               [@ EXCEPT !.pc = "done", !.report = "started"]]
        /\ last' = Done("start", inflight[i].existing_pid, "started", None,
                        inflight[i].spawned, "none", "none", None,
                        <<g.ret.host, g.ret.port>>)
        /\ UNCHANGED <<config_file, procs, routers, next_pid>>
        /\ RaceUnchanged

InitRace ==
    /\ pid_file \in {NoPidFile, CorruptPid}
    /\ share_config = AllAbsent
    /\ config_file \in InitFiles
    /\ procs = {}
    /\ routers = {}
    /\ tunnels = {}
    /\ signalled = {}
    /\ next_pid = 1
    /\ last = NoInvocation
    /\ prev = Untracked
    /\ lifecycle = "none"
    /\ quiet = (pid_file = NoPidFile)
    /\ manager = NoManager
    /\ inflight = [i \in Starts |-> Begin]

NextRace ==
    \/ \E i \in Starts : start_check(i)
    \/ \E i \in Starts, spawn_ok \in BOOLEAN : start_spawn(i, spawn_ok)
    \/ \E i \in Starts : start_record(i)

SpecRace == InitRace /\ [][NextRace]_vars

\* the daemons whose process id an invocation has written to the PID file
Recorded ==
    {inflight[i].spawned : i \in {j \in Starts : inflight[j].report = "started"}}

\* recorded daemons the PID file does not name
Leaked == Recorded \ {pid_file}

\* C15: nothing makes the check and the write of the PID file atomic: every
\* invocation that saw no PID on record spawns a daemon whatever the others
\* did since its check, and write_pid_file overwrites, so the PID file names
\* only the daemon recorded last and every daemon recorded before it stays
\* alive with no record naming it.
C15_ConcurrentStartsLeak ==
    /\ \A i \in Starts : inflight[i].spawned # NoPid =>
           /\ inflight[i].existing_pid = NoPid
           /\ inflight[i].spawned \in routers \cap procs
    /\ Recorded # {} =>
           /\ pid_file = last.spawned
           /\ pid_file \in Recorded
           /\ Cardinality(Leaked) = Cardinality(Recorded) - 1
           /\ Leaked \subseteq (routers \cap procs) \ signalled

\* two invocations both saw no PID on record and both spawned: two routers
\* run and the PID file names only one of them
C15_Witness ==
    \E i, j \in Starts :
        /\ i # j
        /\ inflight[i].report = "started" /\ inflight[j].report = "started"
        /\ inflight[i].existing_pid = NoPid /\ inflight[j].existing_pid = NoPid
        /\ Cardinality(routers \cap procs) = 2
        /\ pid_file = inflight[j].spawned
        /\ Leaked = {inflight[i].spawned}

====
